---- MODULE Spec2Model ----
(***************************************************************************)
(* Model of the virtual-DOM library: the ElementType tree, its derived     *)
(* equality, the two diff passes of update_dom, the markup serializer      *)
(* virtual_dom_to_html, and the two callers in main.rs.                    *)
(*                                                                         *)
(* A HashMap<String, String> is modelled as a sequence of <<key, value>>   *)
(* pairs with distinct keys.  The sequence order is the order in which     *)
(* that map instance iterates; it is not fixed by the map's contents, so   *)
(* two maps with the same contents may carry different orders.  Equality   *)
(* of maps (HashMapEq) ignores the order, iteration (virtual_dom_to_html)  *)
(* follows it.                                                             *)
(***************************************************************************)
EXTENDS FiniteSets, Integers, Sequences, TLC

VARIABLES request, pc, old_dom, new_dom, diff, html, removed_calls, assert_ok

vars == <<request, pc, old_dom, new_dom, diff, html, removed_calls, assert_ok>>

(* ------------------------------ bounds --------------------------------- *)

\* Longest child list of the generated one-level elements.
MaxChildren == 3
\* Deepest nesting of the generated nested elements (a leaf has depth 1).
MaxDepth == 3

(* ---------------------------- tree model ------------------------------- *)

\* ElementType::Text(String)
Text(text) == [kind |-> "Text", text |-> text]

\* ElementType::Element(String, HashMap<String, String>, Vec<ElementType>)
Element(tag, attrs, children) ==
    [kind |-> "Element", tag |-> tag, attrs |-> attrs, children |-> children]

\* struct VirtualNode { element_type }
VirtualNode(element_type) == [element_type |-> element_type]

\* Diff::AddNode(VirtualNode)
AddNode(node) == [variant |-> "AddNode", node |-> node]

\* Diff::RemoveNode(VirtualNode)
RemoveNode(node) == [variant |-> "RemoveNode", node |-> node]

\* struct AppResponse { diff, html }
AppResponse(d, h) == [diff |-> d, html |-> h]

\* HashMap::new()
HashMap_new == <<>>

Min(a, b) == IF a <= b THEN a ELSE b

\* PartialEq of HashMap<String, String>: same size, and every entry of a is
\* an entry of b.  The iteration order plays no part.
HashMapEq(a, b) ==
    /\ Len(a) = Len(b)
    /\ \A i \in 1..Len(a) : \E j \in 1..Len(b) : b[j] = a[i]

RECURSIVE ElementTypeEq(_, _)
\* #[derive(PartialEq)] on ElementType: same variant and field-wise equal;
\* Vec equality is same length and element-wise equal.
ElementTypeEq(a, b) ==
    IF a.kind # b.kind THEN FALSE
    ELSE IF a.kind = "Text" THEN a.text = b.text
    ELSE /\ a.tag = b.tag
         /\ HashMapEq(a.attrs, b.attrs)
         /\ Len(a.children) = Len(b.children)
         /\ \A i \in 1..Len(a.children) :
                ElementTypeEq(a.children[i], b.children[i])

\* #[derive(PartialEq)] on VirtualNode
VirtualNodeEq(a, b) == ElementTypeEq(a.element_type, b.element_type)

\* impl PartialEq for Diff
DiffEq(a, b) ==
    IF a.variant = "AddNode" /\ b.variant = "AddNode"
    THEN VirtualNodeEq(a.node, b.node)
    ELSE IF a.variant = "RemoveNode" /\ b.variant = "RemoveNode"
    THEN VirtualNodeEq(a.node, b.node)
    ELSE FALSE

\* Vec<Diff> == Vec<Diff>
DiffVecEq(a, b) ==
    /\ Len(a) = Len(b)
    /\ \A i \in 1..Len(a) : DiffEq(a[i], b[i])

\* Variant of is_empty_text_node that holds of no node.
is_empty_text_node_never(self) == FALSE

\* ElementType::is_empty_text_node
is_empty_text_node(self) ==
    IF self.kind = "Text" THEN Len(self.text) = 0 ELSE FALSE

(* ----------------------------- renderer -------------------------------- *)

RECURSIVE join(_, _)
\* [String]::join(sep)
join(strs, sep) ==
    IF Len(strs) = 0 THEN ""
    ELSE IF Len(strs) = 1 THEN strs[1]
    ELSE strs[1] \o sep \o join(Tail(strs), sep)

\* format!("{}=\"{}\"", key, value)
format_attr(kv) == kv[1] \o "=\"" \o kv[2] \o "\""

RECURSIVE virtual_dom_to_html(_)

\* Variant of virtual_dom_to_html that leaves out the space after the tag
\* when there are no attributes.
virtual_dom_to_html_trimmed(node) ==
    IF node.kind = "Text" THEN node.text
    ELSE
      LET attrs_str ==
              join([i \in 1..Len(node.attrs) |-> format_attr(node.attrs[i])], " ")
          children_str ==
              join([i \in 1..Len(node.children) |->
                        virtual_dom_to_html(node.children[i])], "")
      IN "<" \o node.tag \o (IF attrs_str = "" THEN "" ELSE " " \o attrs_str)
             \o ">" \o children_str \o "</" \o node.tag \o ">"

\* pub fn virtual_dom_to_html(node: &ElementType) -> String
virtual_dom_to_html(node) ==
    IF node.kind = "Text" THEN node.text
    ELSE
      LET attrs_str ==
              join([i \in 1..Len(node.attrs) |-> format_attr(node.attrs[i])], " ")
          children_str ==
              join([i \in 1..Len(node.children) |->
                        virtual_dom_to_html(node.children[i])], "")
      IN "<" \o node.tag \o " " \o attrs_str \o ">" \o children_str
             \o "</" \o node.tag \o ">"

(* ---------------------------- diff engine ------------------------------ *)

\* Variant of the addition pass that never compares the two nodes.
find_added_nodes_recursive_uncompared(old, new, added_nodes) ==
    IF ~is_empty_text_node(new)
    THEN Append(added_nodes, VirtualNode(new))
    ELSE added_nodes

RECURSIVE find_added_nodes_recursive_shallow(_, _, _)
RECURSIVE added_zip_shallow(_, _, _, _)
\* Variant of the addition pass that compares variant, text, tag and
\* attributes only, and so descends into Elements whose children differ.
find_added_nodes_recursive_shallow(old, new, added_nodes) ==
    IF \/ old.kind # new.kind
       \/ old.kind = "Text" /\ old.text # new.text
       \/ old.kind = "Element" /\ old.tag # new.tag
       \/ old.kind = "Element" /\ ~HashMapEq(old.attrs, new.attrs)
    THEN IF ~is_empty_text_node(new)
         THEN Append(added_nodes, VirtualNode(new))
         ELSE added_nodes
    ELSE IF old.kind = "Element"
         THEN added_zip_shallow(old.children, new.children, 1, added_nodes)
         ELSE added_nodes
added_zip_shallow(old_children, new_children, i, added_nodes) ==
    IF i > Min(Len(old_children), Len(new_children)) THEN added_nodes
    ELSE added_zip_shallow(old_children, new_children, i + 1,
             find_added_nodes_recursive_shallow(old_children[i],
                                                new_children[i], added_nodes))

RECURSIVE find_added_nodes_recursive(_, _, _)
RECURSIVE added_zip(_, _, _, _)
\* fn find_added_nodes_recursive(old, new, added_nodes: &mut Vec<VirtualNode>);
\* the value is added_nodes after the call.
find_added_nodes_recursive(old, new, added_nodes) ==
    IF ~ElementTypeEq(old, new)
    THEN IF ~is_empty_text_node(new)
         THEN Append(added_nodes, VirtualNode(new))
         ELSE added_nodes
    ELSE IF old.kind = "Element"
         THEN IF new.kind = "Element"
              THEN added_zip(old.children, new.children, 1, added_nodes)
              ELSE added_nodes
         ELSE added_nodes

\* for (old_child, new_child) in old_children.iter().zip(new_children.iter()),
\* from the i-th pair on: the loop ends with the shorter list.
added_zip(old_children, new_children, i, added_nodes) ==
    IF i > Min(Len(old_children), Len(new_children)) THEN added_nodes
    ELSE added_zip(old_children, new_children, i + 1,
             find_added_nodes_recursive(old_children[i], new_children[i],
                                        added_nodes))

\* fn find_added_nodes
find_added_nodes(old, new) ==
    find_added_nodes_recursive(old.element_type, new.element_type, <<>>)

\* The removal pass threads a record [removed_nodes, calls]: removed_nodes is
\* the &mut Vec<VirtualNode> of the code, calls is a history of the argument
\* pairs <<old, new>> of every invocation, in call order.
NoRemovals == [removed_nodes |-> <<>>, calls |-> <<>>]

\* Variant of the removal pass that never compares the two nodes.
find_removed_nodes_recursive_uncompared(old, new, acc) ==
    LET here == [acc EXCEPT !.calls = Append(@, <<old, new>>)]
    IN IF ~is_empty_text_node(old)
       THEN [here EXCEPT !.removed_nodes = Append(@, VirtualNode(old))]
       ELSE here

RECURSIVE find_removed_nodes_recursive_shallow(_, _, _)
RECURSIVE removed_zip_shallow(_, _, _, _)
\* Variant of the removal pass that compares variant, text, tag and
\* attributes only, and so descends into Elements whose children differ.
find_removed_nodes_recursive_shallow(old, new, acc) ==
    LET here == [acc EXCEPT !.calls = Append(@, <<old, new>>)]
    IN IF \/ old.kind # new.kind
          \/ old.kind = "Text" /\ old.text # new.text
          \/ old.kind = "Element" /\ old.tag # new.tag
          \/ old.kind = "Element" /\ ~HashMapEq(old.attrs, new.attrs)
       THEN IF ~is_empty_text_node(old)
            THEN [here EXCEPT !.removed_nodes = Append(@, VirtualNode(old))]
            ELSE here
       ELSE IF old.kind = "Element"
            THEN removed_zip_shallow(old.children, new.children, 1, here)
            ELSE here
removed_zip_shallow(old_children, new_children, i, acc) ==
    IF i > Min(Len(old_children), Len(new_children)) THEN acc
    ELSE removed_zip_shallow(old_children, new_children, i + 1,
             find_removed_nodes_recursive_shallow(old_children[i],
                                                  new_children[i], acc))

RECURSIVE find_removed_nodes_recursive(_, _, _)
RECURSIVE removed_zip(_, _, _, _)
\* fn find_removed_nodes_recursive(old, new, removed_nodes: &mut Vec<VirtualNode>)
find_removed_nodes_recursive(old, new, acc) ==
    LET here == [acc EXCEPT !.calls = Append(@, <<old, new>>)]
    IN IF ~ElementTypeEq(old, new)
       THEN IF ~is_empty_text_node(old)
            THEN [here EXCEPT !.removed_nodes = Append(@, VirtualNode(old))]
            ELSE here
       ELSE IF old.kind = "Element"
            THEN IF new.kind = "Element"
                 THEN removed_zip(old.children, new.children, 1, here)
                 ELSE here
            ELSE here

\* for (old_child, new_child) in old_children.iter().zip(new_children.iter()),
\* from the i-th pair on: the loop ends with the shorter list.
removed_zip(old_children, new_children, i, acc) ==
    IF i > Min(Len(old_children), Len(new_children)) THEN acc
    ELSE removed_zip(old_children, new_children, i + 1,
             find_removed_nodes_recursive(old_children[i], new_children[i], acc))

\* fn find_removed_nodes
find_removed_nodes(old, new) ==
    find_removed_nodes_recursive(old.element_type, new.element_type,
                                 NoRemovals).removed_nodes

\* The invocations of find_removed_nodes_recursive made by find_removed_nodes.
find_removed_nodes_calls(old, new) ==
    find_removed_nodes_recursive(old.element_type, new.element_type,
                                 NoRemovals).calls

\* Variant of update_dom that pushes the additions before the removals.
update_dom_additions_first(old, new) ==
    LET removed_nodes == find_removed_nodes(old, new)
        added_nodes == find_added_nodes(old, new)
    IN AppResponse(
         [i \in 1..Len(added_nodes) |-> AddNode(added_nodes[i])]
           \o [i \in 1..Len(removed_nodes) |-> RemoveNode(removed_nodes[i])],
         virtual_dom_to_html(new.element_type))

\* Variant of update_dom that renders the old snapshot.
update_dom_renders_old(old, new) ==
    LET removed_nodes == find_removed_nodes(old, new)
        added_nodes == find_added_nodes(old, new)
    IN AppResponse(
         [i \in 1..Len(removed_nodes) |-> RemoveNode(removed_nodes[i])]
           \o [i \in 1..Len(added_nodes) |-> AddNode(added_nodes[i])],
         virtual_dom_to_html(old.element_type))

\* pub fn update_dom(old: &VirtualNode, new: &VirtualNode) -> AppResponse
update_dom(old, new) ==
    LET removed_nodes == find_removed_nodes(old, new)
        added_nodes == find_added_nodes(old, new)
    IN AppResponse(
         [i \in 1..Len(removed_nodes) |-> RemoveNode(removed_nodes[i])]
           \o [i \in 1..Len(added_nodes) |-> AddNode(added_nodes[i])],
         virtual_dom_to_html(new.element_type))

(* ------------------------- callers (main.rs) --------------------------- *)

\* fn run_app: the two snapshots it builds.
run_app_old_dom(dynamic_input) ==
    VirtualNode(Element("div", HashMap_new,
        << Text(dynamic_input),
           Element("input", << <<"id", "myInput">> >>, <<>>) >>))

run_app_new_dom(dynamic_input) ==
    VirtualNode(Element("div", HashMap_new, << Text(dynamic_input) >>))

\* fn update_input: the two snapshots it builds.
update_input_old_dom == VirtualNode(Element("div", HashMap_new, << Text("") >>))

update_input_new_dom(input) ==
    VirtualNode(Element("div", HashMap_new,
        IF Len(input) = 0 THEN <<>> ELSE << Text(input) >>))

(* ------------------------- tests (mod tests) --------------------------- *)

test_old_dom == VirtualNode(Element("div", HashMap_new, << Text("Hello") >>))

test_new_dom ==
    VirtualNode(Element("div", HashMap_new,
        << Text("World"), Element("span", HashMap_new, << Text("!") >>) >>))

test_expected_diff == << RemoveNode(test_old_dom), AddNode(test_new_dom) >>

test_element ==
    Element("div", HashMap_new,
        << Text("Hello"), Element("span", HashMap_new, << Text("World") >>) >>)

test_expected_html == "<div >Hello<span >World</span></div>"

(* --------------------------- input domain ------------------------------ *)

\* One two-entry attribute map, in its two possible iteration orders.
AttrsIdClass == << <<"id", "x">>, <<"class", "y">> >>
AttrsClassId == << <<"class", "y">>, <<"id", "x">> >>

SeqsUpTo(S, n) == UNION {[1..k -> S] : k \in 0..n}

WideLeaves == {Text(""), Text("a"), Element("span", AttrsIdClass, <<>>)}

RootLabels == {<<"div", HashMap_new>>, <<"div", AttrsIdClass>>,
               <<"div", AttrsClassId>>}

\* Elements with up to MaxChildren leaf children.
Wide ==
    {Element(l[1], l[2], ch) :
        l \in RootLabels, ch \in SeqsUpTo(WideLeaves, MaxChildren)}

Leaves == WideLeaves \cup {Element("span", AttrsClassId, <<>>)}

RECURSIVE Nested(_)
\* Trees of depth up to d: a div around a tree of depth up to d - 1,
\* alone or followed by a text.
Nested(d) ==
    IF d <= 1 THEN Leaves
    ELSE LET inner == Nested(d - 1)
         IN inner \cup {Element("div", HashMap_new, <<c>> \o rest) :
                           c \in inner, rest \in {<<>>, << Text("a") >>}}

Nodes == Wide \cup Nested(MaxDepth)

Inputs == {"", "a", "Hello", "<b>"}

Nil == [kind |-> "Nil"]

Requests ==
    {[op |-> "update_dom", old |-> VirtualNode(o), new |-> VirtualNode(n)] :
        o \in Nodes, n \in Nodes}
    \cup {[op |-> "virtual_dom_to_html", node |-> n] : n \in Nodes}
    \cup {[op |-> "run_app", dynamic_input |-> i] : i \in Inputs}
    \cup {[op |-> "update_input", input |-> i] : i \in Inputs}
    \cup {[op |-> "test_update_dom"], [op |-> "test_virtual_dom_to_html"]}

(* --------------------------- state machine ----------------------------- *)

Init ==
    /\ request \in Requests
    /\ pc = "pending"
    /\ old_dom = Nil
    /\ new_dom = Nil
    /\ diff = <<>>
    /\ html = ""
    /\ removed_calls = <<>>
    /\ assert_ok = TRUE

\* A call of update_dom(old, new): the state after it returns.
Compare(old, new) ==
    LET app_response == update_dom(old, new)
    IN /\ old_dom' = old
       /\ new_dom' = new
       /\ diff' = app_response.diff
       /\ html' = app_response.html
       /\ removed_calls' = find_removed_nodes_calls(old, new)
       /\ pc' = "done"

UpdateDom ==
    /\ pc = "pending"
    /\ request.op = "update_dom"
    /\ Compare(request.old, request.new)
    /\ UNCHANGED <<request, assert_ok>>

VirtualDomToHtml ==
    /\ pc = "pending"
    /\ request.op = "virtual_dom_to_html"
    /\ html' = virtual_dom_to_html(request.node)
    /\ pc' = "done"
    /\ UNCHANGED <<request, old_dom, new_dom, diff, removed_calls, assert_ok>>

RunApp ==
    /\ pc = "pending"
    /\ request.op = "run_app"
    /\ Compare(run_app_old_dom(request.dynamic_input),
               run_app_new_dom(request.dynamic_input))
    /\ UNCHANGED <<request, assert_ok>>

UpdateInput ==
    /\ pc = "pending"
    /\ request.op = "update_input"
    /\ Compare(update_input_old_dom, update_input_new_dom(request.input))
    /\ UNCHANGED <<request, assert_ok>>

TestUpdateDom ==
    /\ pc = "pending"
    /\ request.op = "test_update_dom"
    /\ Compare(test_old_dom, test_new_dom)
    /\ assert_ok' = DiffVecEq(update_dom(test_old_dom, test_new_dom).diff,
                              test_expected_diff)
    /\ UNCHANGED request

TestVirtualDomToHtml ==
    /\ pc = "pending"
    /\ request.op = "test_virtual_dom_to_html"
    /\ html' = virtual_dom_to_html(test_element)
    /\ assert_ok' = (virtual_dom_to_html(test_element) = test_expected_html)
    /\ pc' = "done"
    /\ UNCHANGED <<request, old_dom, new_dom, diff, removed_calls>>

Next ==
    \/ UpdateDom
    \/ VirtualDomToHtml
    \/ RunApp
    \/ UpdateInput
    \/ TestUpdateDom
    \/ TestVirtualDomToHtml

Spec == Init /\ [][Next]_vars

(* ------------------------------ claims --------------------------------- *)

\* update_dom(old_dom, new_dom) has returned.
Compared ==
    /\ pc = "done"
    /\ request.op \in {"update_dom", "run_app", "update_input", "test_update_dom"}

Rendered == pc = "done" /\ request.op = "virtual_dom_to_html"

OldRoot == old_dom.element_type
NewRoot == new_dom.element_type

Removals == {i \in 1..Len(diff) : diff[i].variant = "RemoveNode"}
Additions == {i \in 1..Len(diff) : diff[i].variant = "AddNode"}

HasEmptyTextChild(node) ==
    /\ node.kind = "Element"
    /\ \E i \in 1..Len(node.children) : node.children[i] = Text("")

\* Both roots are Elements with the same tag and the same attributes.
SameShellRoots ==
    /\ OldRoot.kind = "Element"
    /\ NewRoot.kind = "Element"
    /\ OldRoot.tag = NewRoot.tag
    /\ HashMapEq(OldRoot.attrs, NewRoot.attrs)

\* C1: comparing a snapshot with itself yields an empty change list.
C1_Reflexive == (Compared /\ old_dom = new_dom) => diff = <<>>

C1_Witness ==
    /\ Compared
    /\ old_dom = new_dom
    /\ HasEmptyTextChild(OldRoot)
    /\ Len(OldRoot.attrs) = 2
    /\ diff = <<>>

\* C2: every RemoveNode entry of the change list comes before every AddNode
\* entry.
C2_RemovalsFirst ==
    Compared => \A i \in Removals : \A j \in Additions : i < j

C2_Witness ==
    /\ Compared
    /\ request.op = "update_dom"
    /\ Removals # {}
    /\ Additions # {}
    /\ OldRoot.kind = "Element"
    /\ NewRoot.kind = "Text"

C4_AsClaimed ==
    (/\ Compared
     /\ SameShellRoots
     /\ Len(OldRoot.children) = 3
     /\ Len(NewRoot.children) = 1)
    => /\ removed_calls = << <<OldRoot, NewRoot>>,
                             <<OldRoot.children[1], NewRoot.children[1]>> >>
       /\ \A i \in Removals :
             /\ diff[i].node # VirtualNode(OldRoot.children[2])
             /\ diff[i].node # VirtualNode(OldRoot.children[3])

\* C5 (as claimed): rendering two structurally equal nodes gives identical
\* strings.
C5_AsClaimed ==
    (Compared /\ VirtualNodeEq(old_dom, new_dom))
    => virtual_dom_to_html(OldRoot) = html

\* C6: unequal roots, neither an empty text, give exactly
\* [RemoveNode(old root), AddNode(new root)]; the test's assertion holds.
C6_WholeRootReplaced ==
    /\ (/\ Compared
        /\ ~VirtualNodeEq(old_dom, new_dom)
        /\ OldRoot # Text("")
        /\ NewRoot # Text(""))
       => diff = << RemoveNode(old_dom), AddNode(new_dom) >>
    /\ (pc = "done" /\ request.op = "test_update_dom") => assert_ok

C6_Witness ==
    /\ Compared
    /\ request.op = "update_dom"
    /\ SameShellRoots
    /\ Len(OldRoot.children) = 2
    /\ Len(NewRoot.children) = 2
    /\ OldRoot.children[1] = NewRoot.children[1]
    /\ OldRoot.children[2] # NewRoot.children[2]
    /\ diff = << RemoveNode(old_dom), AddNode(new_dom) >>

RECURSIVE C7_Spaced(_)
\* The strings of a sequence, one space between neighbours.
C7_Spaced(strs) ==
    IF strs = <<>> THEN ""
    ELSE IF Len(strs) = 1 THEN strs[1]
    ELSE C7_Spaced(SubSeq(strs, 1, Len(strs) - 1)) \o " " \o strs[Len(strs)]

RECURSIVE C7_ChildMarkup(_, _)
\* The renderings of the first k children, one after the other.
C7_ChildMarkup(node, k) ==
    IF k = 0 THEN ""
    ELSE C7_ChildMarkup(node, k - 1) \o virtual_dom_to_html(node.children[k])

C7_Markup(node) ==
    IF node.kind = "Text" THEN node.text
    ELSE "<" \o node.tag \o " "
         \o C7_Spaced([i \in 1..Len(node.attrs) |->
                node.attrs[i][1] \o "=\"" \o node.attrs[i][2] \o "\""])
         \o ">" \o C7_ChildMarkup(node, Len(node.children))
         \o "</" \o node.tag \o ">"

\* C7: a Text renders as its content, unescaped; an Element renders as
\* <tag attrs>children</tag> with attrs as name="value" joined by one space
\* and the children's renderings concatenated; with no attributes the space
\* before > stays, and the test's element renders as
\* <div >Hello<span >World</span></div>.
C7_RenderFormat ==
    /\ Rendered => html = C7_Markup(request.node)
    /\ (Rendered /\ request.node = Element("div", <<>>, <<>>))
          => html = "<div ></div>"
    /\ (Rendered /\ request.node = Element("span", AttrsIdClass, <<>>))
          => html = "<span id=\"x\" class=\"y\"></span>"
    /\ (pc = "done" /\ request.op = "test_virtual_dom_to_html")
          => (html = "<div >Hello<span >World</span></div>" /\ assert_ok)
    /\ (pc = "done" /\ request.op = "update_input" /\ request.input = "<b>")
          => html = "<div ><b></div>"

C7_Witness ==
    /\ Rendered
    /\ request.node.kind = "Element"
    /\ Len(request.node.attrs) = 2
    /\ Len(request.node.children) = 3
    /\ html = "<div class=\"y\" id=\"x\">a<span id=\"x\" class=\"y\"></span></div>"

\* C8: the html of the response is the rendering of the new root, whatever
\* the old snapshot and the change list; two identical single-Text snapshots
\* give an empty change list and the text itself.
C8_HtmlOfNew ==
    /\ Compared => html = virtual_dom_to_html(NewRoot)
    /\ (Compared /\ OldRoot.kind = "Text" /\ old_dom = new_dom)
          => (diff = <<>> /\ html = OldRoot.text)

C8_Witness ==
    /\ Compared
    /\ OldRoot = Text("a")
    /\ NewRoot = Element("div", <<>>, << Text(""), Text("a") >>)
    /\ html = "<div >a</div>"
    /\ Len(diff) = 2

\* The child positions at which the two roots differ.
DifferingChildren ==
    {i \in 1..Min(Len(OldRoot.children), Len(NewRoot.children)) :
        ~ElementTypeEq(OldRoot.children[i], NewRoot.children[i])}

\* C9 (as claimed): when the roots are Elements with the same tag, attributes
\* and number of children and differ in exactly one child position i, the
\* change list holds entries for that position only (RemoveNode(old child i),
\* AddNode(new child i)), not the whole roots.
C9_AsClaimed ==
    (/\ Compared
     /\ SameShellRoots
     /\ Len(OldRoot.children) = Len(NewRoot.children)
     /\ Cardinality(DifferingChildren) = 1)
    => LET i == CHOOSE k \in DifferingChildren : TRUE
       IN /\ diff # <<>>
          /\ \A k \in Removals :
                diff[k].node = VirtualNode(OldRoot.children[i])
          /\ \A k \in Additions :
                diff[k].node = VirtualNode(NewRoot.children[i])

\* C10: the change list has at most one RemoveNode and at most one AddNode,
\* a RemoveNode carries the whole old root and an AddNode the whole new root,
\* and the list is empty exactly when the snapshots are structurally equal.
C10_AtMostRootPair ==
    Compared =>
      /\ Len(diff) <= 2
      /\ Cardinality(Removals) <= 1
      /\ Cardinality(Additions) <= 1
      /\ \A i \in Removals : diff[i].node = old_dom
      /\ \A j \in Additions : diff[j].node = new_dom
      /\ (diff = <<>>) <=> VirtualNodeEq(old_dom, new_dom)

C10_Witness ==
    /\ Compared
    /\ old_dom # new_dom
    /\ VirtualNodeEq(old_dom, new_dom)
    /\ Len(removed_calls) > 2
    /\ \E c \in 1..Len(removed_calls) :
          /\ removed_calls[c][1] # removed_calls[c][2]
          /\ removed_calls[c][1].kind = "Element"
          /\ removed_calls[c][1].tag = "span"
    /\ diff = <<>>

====
